---- MODULE Spec2Model ----
(***************************************************************************)
(* burgbot (src/burgbot.py): channel bindings, the burg button's          *)
(* activation protocol, the startup pass that resumes the buttons, and    *)
(* the burger counters.                                                    *)
(*                                                                         *)
(* The process runs one asyncio event loop.  A handler is a task; a task  *)
(* runs without interruption from one await of an external call to the    *)
(* next.  Each action below is one such stretch: the outcome of the call  *)
(* the task was waiting for, then the handler's code up to its next       *)
(* external call.  A task that was scheduled but has not run yet runs     *)
(* before any waiting task resumes (asyncio's ready queue is FIFO and a   *)
(* waiting task needs an I/O completion first).                           *)
(*                                                                         *)
(* The platform (Discord) holds channels, webhooks and messages and hands *)
(* out ids.  The config store (saru) holds the bindings and the counters  *)
(* and survives a restart; views and tasks do not.                        *)
(***************************************************************************)
EXTENDS Integers, Sequences, FiniteSets, TLC

\* ------------------------------------------------------------- bounds
\* Bindings already persisted when the process starts.
MaxInitBindings == 2
\* Control messages sent during a run.
MaxMessages == 3
\* Channels the create command makes during a run.
MaxChannels == 1
\* Bindings already persisted where the run is one of commands and presses.
MaxRunBindings == 1
\* Handlers in flight at the same time.
MaxTasks == 2
\* Process restarts after the first start.
MaxRestarts == 1

\* ---------------------------------------------------------- constants
Guilds == {1, 2}
DEFAULT_BURG_CHANNEL_NAME == "burg"
Names == <<DEFAULT_BURG_CHANNEL_NAME, "grill", "patty">>
\* The names the create command is given.
CreateNames == {DEFAULT_BURG_CHANNEL_NAME}
CountKeys == {"burgers_posted", "angry_burgers_posted"}
None == 0

VARIABLES
    channels,   \* platform: channel id -> [guild, name], the existing channels
    webhooks,   \* platform: webhook id -> [channel, token], the existing webhooks
    messages,   \* platform: message id -> [channel, by, state], the control messages
    posts,      \* platform: <<webhook id, pressed message id>> -> deliveries executed
    nextId,     \* platform: the next id it hands out
    newIds,     \* control messages made since Init
    newChannels, \* channels made since Init
    cfg,        \* config "g/burg" -> "channels", per guild: ordered dict of bindings
    stats,      \* config "g/burg/stats", per guild
    gstats,     \* config "c/burg/stats"
    clock,      \* datetime.utcnow(), as last read
    inited,     \* guilds whose BurgConfig has run ainit (stats, gstats are set)
    views,      \* message ids with a started BurgView
    tasks,      \* handlers in flight, in creation order
    restarts    \* restarts so far

vars == <<channels, webhooks, messages, posts, nextId, newIds, newChannels, cfg, stats,
          gstats, clock, inited, views, tasks, restarts>>

platform == <<channels, webhooks, messages, posts, nextId, newIds, newChannels>>
store == <<cfg, stats, gstats, clock>>

\* ------------------------------------------------------ config store
\* str(channel.id) and the f-string paths "channels/{channel.id}": the
\* decimal text of the id.  Distinct ids give distinct keys.
Str(id) == <<"str", id>>

\* An ordered dict is a sequence of [key, val] in insertion order.
KeyIn(d, k) == \E i \in 1..Len(d) : d[i].key = k

DictGet(d, k) == d[CHOOSE i \in 1..Len(d) : d[i].key = k].val

DictSet(d, k, v) ==
    IF KeyIn(d, k)
    THEN [i \in 1..Len(d) |-> IF d[i].key = k THEN [key |-> k, val |-> v] ELSE d[i]]
    ELSE Append(d, [key |-> k, val |-> v])

DictDel(d, k) == SelectSeq(d, LAMBDA e : e.key # k)

DictValues(d) == [i \in 1..Len(d) |-> d[i].val]

\* ---------------------------------------------------------- counters
EmptyScope == [k \in {} |-> 0]

\* count_burg that stamps burger_epoch at every call
count_burg_Restamp(scope, count_key, now) ==
    LET first == IF "burger_epoch" \notin DOMAIN scope
                 THEN ("burger_epoch" :> now) @@ ("burgers_posted" :> 0)
                      @@ ("angry_burgers_posted" :> 0)
                 ELSE [scope EXCEPT !["burger_epoch"] = now]
    IN  [first EXCEPT ![count_key] = @ + 1]

count_burg(scope, count_key, now) ==
    LET first == IF "burger_epoch" \notin DOMAIN scope
                 THEN ("burger_epoch" :> now) @@ ("burgers_posted" :> 0)
                      @@ ("angry_burgers_posted" :> 0)
                 ELSE scope
    IN  [first EXCEPT ![count_key] = @ + 1]

num_burg(scope, count_key) ==
    IF "burger_epoch" \notin DOMAIN scope THEN 0 ELSE scope[count_key]

\* ------------------------------------------------------------- tasks
NoTask == [kind |-> "none", pc |-> "none", g |-> 0, c |-> 0, m |-> 0,
           key |-> "", name |-> "", hook |-> 0, new |-> 0, todo |-> <<>>]

RemoveAt(s, i) == [j \in 1..(Len(s) - 1) |-> IF j < i THEN s[j] ELSE s[j + 1]]

NoQueued == \A i \in 1..Len(tasks) : tasks[i].pc # "queued"

FirstQueued(i) ==
    /\ tasks[i].pc = "queued"
    /\ \A j \in 1..(i - 1) : tasks[j].pc # "queued"

\* A control message is "live" until it is deleted: "removed" by
\* remove_burg_button, or "gone" by hand or with its channel.  by is the
\* pressed message whose callback sent it (None: the command or resume_views).
Live == {m \in DOMAIN messages : messages[m].state = "live"}

Controls(c) == {m \in Live : messages[m].channel = c}

delete_message(msgs, m, how) == [msgs EXCEPT ![m].state = how]

\* is_channel_burg
is_channel_burg(g, c) == KeyIn(cfg[g], Str(c))

\* get_channel_by_name that passes over the guild's burg channels
get_channel_by_name_Unbound(g, name) ==
    {c \in DOMAIN channels : /\ channels[c].guild = g
                             /\ channels[c].name = name
                             /\ ~is_channel_burg(g, c)}

\* get_channel_by_name, over the guild's channels
get_channel_by_name(g, name) ==
    {c \in DOMAIN channels : channels[c].guild = g /\ channels[c].name = name}

\* The handler's task ends: it returned, or an exception left it.
Finish(i) == tasks' = RemoveAt(tasks, i)

\* on_start: on to the next guild, or finished.
NextGuild(i) ==
    IF tasks[i].g + 1 \in Guilds
    THEN tasks' = [tasks EXCEPT ![i] = [@ EXCEPT !.pc = "guild", !.g = @ + 1,
                                           !.c = 0, !.m = 0, !.new = 0,
                                           !.todo = <<>>]]
    ELSE Finish(i)

StartTask == [NoTask EXCEPT !.kind = "start", !.pc = "guild", !.g = 1]

\* -------------------------------------------------------------- Init
\* The process starts on whatever an earlier run persisted: up to
\* MaxInitBindings bindings, each made by burg_channel_create (a channel, its
\* webhook, its control message, in that order) in some guild.  Ids are only
\* compared for equality, so the guilds are taken in the order of the ids.
InitGuildOf ==
    {f \in [1..MaxInitBindings -> Guilds] :
        \A j, k \in 1..MaxInitBindings : j < k => f[j] <= f[k]}

InitBinding(k) ==
    [channel_id |-> 3 * k - 2, webhook_id |-> 3 * k - 1,
     webhook_token |-> 3 * k - 1, button_id |-> 3 * k]

\* The bindings of guild g among the first n, in creation order.
RECURSIVE InitDict(_, _, _)
InitDict(g, n, guildOf) ==
    IF n = 0 THEN <<>>
    ELSE IF guildOf[n] = g
         THEN Append(InitDict(g, n - 1, guildOf),
                     [key |-> Str(3 * n - 2), val |-> InitBinding(n)])
         ELSE InitDict(g, n - 1, guildOf)

InitWith(n) ==
    \E guildOf \in InitGuildOf :
        \* the guilds of the bindings beyond n play no part
        /\ \A k \in (n + 1)..MaxInitBindings : guildOf[k] = 2
        /\ channels = [c \in {3 * k - 2 : k \in 1..n} |->
                         [guild |-> guildOf[(c + 2) \div 3],
                          name |-> Names[Len(InitDict(guildOf[(c + 2) \div 3],
                                                    (c + 2) \div 3, guildOf))]]]
        /\ webhooks = [h \in {3 * k - 1 : k \in 1..n} |->
                         [channel |-> h - 1, token |-> h]]
        /\ messages = [m \in {3 * k : k \in 1..n} |->
                         [channel |-> m - 2, by |-> None, state |-> "live"]]
        /\ posts = [p \in {} |-> 0]
        /\ nextId = 3 * n + 1
        /\ newIds = 0
        /\ newChannels = 0
        /\ cfg = [g \in Guilds |-> InitDict(g, n, guildOf)]
        /\ stats = [g \in Guilds |-> EmptyScope]
        /\ gstats = EmptyScope
        /\ clock = 0
        /\ inited = {}
        /\ views = {}
        /\ tasks = <<StartTask>>
        /\ restarts = 0

Init == \E n \in 0..MaxInitBindings : InitWith(n)

\* The process starts on at most MaxRunBindings persisted bindings.
InitRun == \E n \in 0..MaxRunBindings : InitWith(n)

\* ------------------------------------------------- create_burg_button
\* fetch_channel, then channel.send: the platform makes the message.  The
\* handler has not seen the answer yet.
SendOk(i) ==
    /\ tasks[i].pc = "send"
    /\ NoQueued
    /\ tasks[i].c \in DOMAIN channels
    /\ newIds < MaxMessages
    /\ messages' = (nextId :> [channel |-> tasks[i].c, by |-> tasks[i].m,
                               state |-> "live"]) @@ messages
    /\ nextId' = nextId + 1
    /\ newIds' = newIds + 1
    /\ tasks' = [tasks EXCEPT ![i] = [@ EXCEPT !.pc = "sent", !.new = nextId]]
    /\ UNCHANGED <<channels, webhooks, posts, newChannels, store, inited, views, restarts>>

\* The channel is gone (NotFoundError), or the call fails: the exception
\* leaves create_burg_button and its caller.
SendFailed(i) ==
    /\ tasks[i].pc = "send"
    /\ NoQueued
    /\ Finish(i)
    /\ UNCHANGED <<platform, store, inited, views, restarts>>

\* The answer arrives: path_set button_id, burg_buttons.start(message).  In
\* resume_views the next statement is the return.
\* path_set of the channel's id where the message's id belongs
button_set_ChannelId(d, c, id) ==
    DictSet(d, Str(c), [DictGet(d, Str(c)) EXCEPT !.button_id = c])

button_set(d, c, id) ==
    DictSet(d, Str(c), [DictGet(d, Str(c)) EXCEPT !.button_id = id])

Sent(i) ==
    /\ tasks[i].pc = "sent"
    /\ NoQueued
    /\ IF is_channel_burg(tasks[i].g, tasks[i].c)
       THEN /\ cfg' = [cfg EXCEPT ![tasks[i].g] = button_set(@, tasks[i].c, tasks[i].new)]
            /\ views' = views \cup ({tasks[i].new} \cap Live)
            /\ IF tasks[i].kind = "start" THEN NextGuild(i) ELSE Finish(i)
       ELSE \* the binding was deleted meanwhile: path_set has no entry to set
            /\ Finish(i)
            /\ UNCHANGED <<cfg, views>>
    /\ UNCHANGED <<platform, stats, gstats, clock, inited, restarts>>

\* ----------------------------------------------- on_start, resume_views
\* gs(BurgConfig, guild), ainit, and resume_views up to its first fetch.
StartGuild(i) ==
    /\ tasks[i].kind = "start"
    /\ tasks[i].pc = "guild"
    /\ NoQueued
    /\ inited' = inited \cup {tasks[i].g}
    /\ IF cfg[tasks[i].g] = <<>>
       THEN NextGuild(i)
       ELSE tasks' = [tasks EXCEPT ![i] = [@ EXCEPT !.pc = "fetch",
                                              !.todo = DictValues(cfg[tasks[i].g])]]
    /\ UNCHANGED <<platform, store, views, restarts>>

\* resume_views without a way around create_burg_button: the message is
\* found, its view is started, and a control is made all the same.
FetchFound_Recreate(i) ==
    /\ tasks[i].kind = "start"
    /\ tasks[i].pc = "fetch"
    /\ NoQueued
    /\ LET b == Head(tasks[i].todo)
       IN  /\ b.button_id \in Controls(b.channel_id)
           /\ views' = views \cup {b.button_id}
           /\ tasks' = [tasks EXCEPT ![i] = [@ EXCEPT !.pc = "send",
                                                 !.c = b.channel_id, !.m = None]]
    /\ UNCHANGED <<platform, store, inited, restarts>>

\* fetch_message(burg_cfg["channel_id"], burg_cfg["button_id"]) finds the
\* message: BurgView(...).start(message), and on to the next binding.
FetchFound(i) ==
    /\ tasks[i].kind = "start"
    /\ tasks[i].pc = "fetch"
    /\ NoQueued
    /\ LET b == Head(tasks[i].todo)
           rest == Tail(tasks[i].todo)
       IN  /\ b.button_id \in Controls(b.channel_id)
           /\ views' = views \cup {b.button_id}
           /\ IF rest = <<>>
              THEN NextGuild(i)
              ELSE tasks' = [tasks EXCEPT ![i] = [@ EXCEPT !.todo = rest]]
    /\ UNCHANGED <<platform, store, inited, restarts>>

\* NotFoundError: create_burg_button for that channel.  (For a button_id of
\* None the request names no message id at all; the platform answers it with
\* 400 Bad Request, which is BadRequestError, not NotFoundError: FetchFailed.)
FetchNotFound(i) ==
    /\ tasks[i].kind = "start"
    /\ tasks[i].pc = "fetch"
    /\ NoQueued
    /\ LET b == Head(tasks[i].todo)
       IN  /\ b.button_id # None
           /\ b.button_id \notin Controls(b.channel_id)
           /\ tasks' = [tasks EXCEPT ![i] = [@ EXCEPT !.pc = "send",
                                                 !.c = b.channel_id, !.m = None]]
    /\ UNCHANGED <<platform, store, inited, views, restarts>>

\* Any other error leaves resume_views and on_start.
FetchFailed(i) ==
    /\ tasks[i].kind = "start"
    /\ tasks[i].pc = "fetch"
    /\ NoQueued
    /\ Finish(i)
    /\ UNCHANGED <<platform, store, inited, views, restarts>>

\* -------------------------------------------------- BurgButton.callback
\* A press of a button of message m reaches the started view of m, which
\* schedules the callback.
Dispatch(m, key) ==
    /\ m \in views
    /\ m \in Live
    /\ Len(tasks) < MaxTasks
    /\ tasks' = Append(tasks, [NoTask EXCEPT !.kind = "callback", !.pc = "queued",
                                  !.g = channels[messages[m].channel].guild,
                                  !.c = messages[m].channel, !.m = m, !.key = key])
    /\ UNCHANGED <<platform, store, inited, views, restarts>>

\* remove_burg_button without the comparison of button_id and message.id
remove_burg_button_NoIdCheck(g, message) ==
    IF ~KeyIn(cfg[g], Str(messages[message].channel)) THEN "skip" ELSE "delete"

\* remove_burg_button up to message.delete(): "delete" when the message is the
\* tracked one, "skip" when it returns early.
remove_burg_button(g, message) ==
    IF ~KeyIn(cfg[g], Str(messages[message].channel)) THEN "skip"
    ELSE IF DictGet(cfg[g], Str(messages[message].channel)).button_id # message
         THEN "skip"
         ELSE "delete"

\* post_to_burghook up to execute_webhook: path_get of the webhook id.
post_to_burghook(i) ==
    IF is_channel_burg(tasks[i].g, tasks[i].c)
    THEN tasks' = [tasks EXCEPT ![i] =
             [@ EXCEPT !.pc = "post",
                       !.hook = DictGet(cfg[tasks[i].g], Str(tasks[i].c)).webhook_id]]
    ELSE Finish(i)

\* A callback that delivers first: post_to_burghook before remove_burg_button.
Callback_DeliverFirst(i) ==
    /\ tasks[i].kind = "callback"
    /\ FirstQueued(i)
    /\ views' = views \ {tasks[i].m}
    /\ post_to_burghook(i)
    /\ UNCHANGED <<platform, store, inited, restarts>>

\* The callback starts: self.view.stop(), then remove_burg_button.
Callback(i) ==
    /\ tasks[i].kind = "callback"
    /\ FirstQueued(i)
    /\ views' = views \ {tasks[i].m}
    /\ IF remove_burg_button(tasks[i].g, tasks[i].m) = "delete"
       THEN tasks' = [tasks EXCEPT ![i] = [@ EXCEPT !.pc = "delete"]]
       ELSE post_to_burghook(i)
    /\ UNCHANGED <<platform, store, inited, restarts>>

\* message.delete() answers; the callback goes on to post_to_burghook.
DeleteOk(i) ==
    /\ tasks[i].pc = "delete"
    /\ NoQueued
    /\ tasks[i].m \in Live
    /\ messages' = delete_message(messages, tasks[i].m, "removed")
    /\ post_to_burghook(i)
    /\ UNCHANGED <<channels, webhooks, posts, nextId, newIds, newChannels, store, inited, views,
                   restarts>>

\* NotFoundError (the message is deleted already) or a failed call: the
\* exception leaves remove_burg_button and the callback.
DeleteFailed(i) ==
    /\ tasks[i].pc = "delete"
    /\ NoQueued
    /\ Finish(i)
    /\ UNCHANGED <<platform, store, inited, views, restarts>>

\* A callback that counts in the global scope only.
PostOk_GlobalOnly(i) ==
    /\ tasks[i].pc = "post"
    /\ NoQueued
    /\ tasks[i].hook \in DOMAIN webhooks
    /\ posts' = LET p == <<tasks[i].hook, tasks[i].m>>
                IN  IF p \in DOMAIN posts
                    THEN [posts EXCEPT ![p] = @ + 1]
                    ELSE (p :> 1) @@ posts
    /\ IF tasks[i].g \in inited
       THEN /\ clock' = clock + 1
            /\ gstats' = count_burg(gstats, tasks[i].key, clock')
            /\ tasks' = [tasks EXCEPT ![i] = [@ EXCEPT !.pc = "send"]]
            /\ UNCHANGED stats
       ELSE /\ Finish(i)
            /\ UNCHANGED <<stats, gstats, clock>>
    /\ UNCHANGED <<channels, webhooks, messages, nextId, newIds, newChannels, cfg,
                   inited, views, restarts>>

\* execute_webhook answers; then gstats.count_burg, stats.count_burg and
\* create_burg_button up to its send.  stats and gstats are None until ainit:
\* the first count_burg then raises AttributeError.
PostOk(i) ==
    /\ tasks[i].pc = "post"
    /\ NoQueued
    /\ tasks[i].hook \in DOMAIN webhooks
    /\ posts' = LET p == <<tasks[i].hook, tasks[i].m>>
                IN  IF p \in DOMAIN posts
                    THEN [posts EXCEPT ![p] = @ + 1]
                    ELSE (p :> 1) @@ posts
    /\ IF tasks[i].g \in inited
       THEN /\ clock' = clock + 1
            /\ gstats' = count_burg(gstats, tasks[i].key, clock')
            /\ stats' = [stats EXCEPT ![tasks[i].g] =
                            count_burg(@, tasks[i].key, clock')]
            /\ tasks' = [tasks EXCEPT ![i] = [@ EXCEPT !.pc = "send"]]
       ELSE /\ Finish(i)
            /\ UNCHANGED <<stats, gstats, clock>>
    /\ UNCHANGED <<channels, webhooks, messages, nextId, newIds, newChannels, cfg, inited, views,
                   restarts>>

\* The webhook is gone, or the call fails: the exception leaves the callback.
PostFailed(i) ==
    /\ tasks[i].pc = "post"
    /\ NoQueued
    /\ Finish(i)
    /\ UNCHANGED <<platform, store, inited, views, restarts>>

\* -------------------------------------------------- burg_channel_create
\* The command up to its first external call: with a channel of that name it
\* answers with an error embed, else it asks for the channel.
burg_channel_create(g, name) ==
    /\ Len(tasks) < MaxTasks
    /\ tasks' = Append(tasks,
           [NoTask EXCEPT !.kind = "create", !.g = g, !.name = name,
                 !.pc = IF get_channel_by_name(g, name) # {} THEN "reject"
                        ELSE "mkchan"])
    /\ UNCHANGED <<platform, store, inited, views, restarts>>

\* ctx.respond(error_embed(...)) answers and the command returns.
Rejected(i) ==
    /\ tasks[i].pc = "reject"
    /\ NoQueued
    /\ Finish(i)
    /\ UNCHANGED <<platform, store, inited, views, restarts>>

\* create_guild_text_channel and create_webhook answer: the binding is stored
\* with button_id None, the command confirms, and create_burg_button starts.
\* (Nothing of this program can tell a channel that has no webhook yet from
\* one whose webhook could not be made, so the two calls are one step.)
create_burg_channel(i) ==
    /\ tasks[i].pc = "mkchan"
    /\ NoQueued
    /\ newChannels < MaxChannels
    /\ channels' = (nextId :> [guild |-> tasks[i].g, name |-> tasks[i].name])
                   @@ channels
    /\ webhooks' = ((nextId + 1) :> [channel |-> nextId, token |-> nextId + 1])
                   @@ webhooks
    /\ nextId' = nextId + 2
    /\ newChannels' = newChannels + 1
    /\ cfg' = [cfg EXCEPT ![tasks[i].g] =
                  DictSet(@, Str(nextId),
                          [channel_id |-> nextId, webhook_id |-> nextId + 1,
                           webhook_token |-> nextId + 1, button_id |-> None])]
    /\ tasks' = [tasks EXCEPT ![i] = [@ EXCEPT !.pc = "send", !.c = nextId,
                                          !.hook = nextId + 1]]
    /\ UNCHANGED <<messages, posts, newIds, stats, gstats, clock, inited, views, restarts>>

\* create_webhook fails: the channel stays, unbound.
CreateWebhookFailed(i) ==
    /\ tasks[i].pc = "mkchan"
    /\ NoQueued
    /\ newChannels < MaxChannels
    /\ channels' = (nextId :> [guild |-> tasks[i].g, name |-> tasks[i].name])
                   @@ channels
    /\ nextId' = nextId + 1
    /\ newChannels' = newChannels + 1
    /\ Finish(i)
    /\ UNCHANGED <<webhooks, messages, posts, newIds, store, inited, views, restarts>>

\* create_guild_text_channel fails.
CreateChannelFailed(i) ==
    /\ tasks[i].pc = "mkchan"
    /\ NoQueued
    /\ Finish(i)
    /\ UNCHANGED <<platform, store, inited, views, restarts>>

\* -------------------------------------------------- burg_channel_delete
\* burg_channel_delete without its is_channel_burg check: delete_burg_channel
\* is entered for every channel.
burg_channel_delete_NoCheck(c) ==
    /\ c \in DOMAIN channels
    /\ Len(tasks) < MaxTasks
    /\ LET g == channels[c].guild
       IN  tasks' = Append(tasks,
               [NoTask EXCEPT !.kind = "delete", !.pc = "rmhook", !.g = g, !.c = c,
                     !.hook = IF is_channel_burg(g, c)
                              THEN DictGet(cfg[g], Str(c)).webhook_id ELSE None])
    /\ UNCHANGED <<platform, store, inited, views, restarts>>

\* The command up to its first external call: for a channel that is no burg
\* channel it answers with an error embed, else delete_burg_channel asks for
\* the webhook's deletion.
burg_channel_delete(c) ==
    /\ c \in DOMAIN channels
    /\ Len(tasks) < MaxTasks
    /\ LET g == channels[c].guild
       IN  tasks' = Append(tasks,
               IF ~is_channel_burg(g, c)
               THEN [NoTask EXCEPT !.kind = "delete", !.pc = "reject", !.g = g, !.c = c]
               ELSE [NoTask EXCEPT !.kind = "delete", !.pc = "rmhook", !.g = g, !.c = c,
                           !.hook = DictGet(cfg[g], Str(c)).webhook_id])
    /\ UNCHANGED <<platform, store, inited, views, restarts>>

\* delete_webhook answers; delete_burg_channel asks for the channel's deletion.
WebhookDeleted(i) ==
    /\ tasks[i].pc = "rmhook"
    /\ NoQueued
    /\ tasks[i].hook \in DOMAIN webhooks
    /\ webhooks' = [h \in DOMAIN webhooks \ {tasks[i].hook} |-> webhooks[h]]
    /\ tasks' = [tasks EXCEPT ![i] = [@ EXCEPT !.pc = "rmchan"]]
    /\ UNCHANGED <<channels, messages, posts, nextId, newIds, newChannels, store, inited, views,
                   restarts>>

\* delete_burg_channel without its path_delete.
delete_burg_channel_KeepEntry(i) ==
    /\ tasks[i].pc = "rmchan"
    /\ NoQueued
    /\ tasks[i].c \in DOMAIN channels
    /\ channels' = [c \in DOMAIN channels \ {tasks[i].c} |-> channels[c]]
    /\ messages' = [m \in DOMAIN messages |->
                      IF messages[m].channel = tasks[i].c /\ m \in Live
                      THEN [messages[m] EXCEPT !.state = "gone"]
                      ELSE messages[m]]
    /\ views' = views \ {m \in DOMAIN messages : messages[m].channel = tasks[i].c}
    /\ Finish(i)
    /\ UNCHANGED <<webhooks, posts, nextId, newIds, newChannels, store, inited, restarts>>

\* delete_channel answers (the channel's messages go with it), then
\* path_delete and the confirmation.
delete_burg_channel(i) ==
    /\ tasks[i].pc = "rmchan"
    /\ NoQueued
    /\ tasks[i].c \in DOMAIN channels
    /\ channels' = [c \in DOMAIN channels \ {tasks[i].c} |-> channels[c]]
    /\ messages' = [m \in DOMAIN messages |->
                      IF messages[m].channel = tasks[i].c /\ m \in Live
                      THEN [messages[m] EXCEPT !.state = "gone"]
                      ELSE messages[m]]
    /\ views' = views \ {m \in DOMAIN messages : messages[m].channel = tasks[i].c}
    /\ cfg' = [cfg EXCEPT ![tasks[i].g] = DictDel(@, Str(tasks[i].c))]
    /\ Finish(i)
    /\ UNCHANGED <<webhooks, posts, nextId, newIds, newChannels, stats, gstats, clock, inited,
                   restarts>>

\* delete_burg_channel that removes the entry also when a call fails
DeleteCommandFailed_DropsEntry(i) ==
    /\ tasks[i].pc \in {"rmhook", "rmchan"}
    /\ NoQueued
    /\ cfg' = [cfg EXCEPT ![tasks[i].g] = DictDel(@, Str(tasks[i].c))]
    /\ Finish(i)
    /\ UNCHANGED <<platform, stats, gstats, clock, inited, views, restarts>>

\* delete_webhook or delete_channel fails (the webhook or the channel is gone,
\* or the call fails): the exception leaves delete_burg_channel.
DeleteCommandFailed(i) ==
    /\ tasks[i].pc \in {"rmhook", "rmchan"}
    /\ NoQueued
    /\ Finish(i)
    /\ UNCHANGED <<platform, store, inited, views, restarts>>

\* ------------------------------------------------------- environment
\* Somebody deletes a control message by hand.  (A view of a deleted message
\* gets no interaction any more; it is dropped from views with the message.)
ExternalDelete(m) ==
    /\ m \in Live
    /\ messages' = delete_message(messages, m, "gone")
    /\ views' = views \ {m}
    /\ UNCHANGED <<channels, webhooks, posts, nextId, newIds, newChannels, store, inited, tasks,
                   restarts>>

\* The process is stopped and started again: StartedEvent, on_start.
Started ==
    /\ restarts' = restarts + 1
    /\ inited' = {}
    /\ views' = {}
    /\ tasks' = <<StartTask>>
    /\ UNCHANGED <<platform, store>>

\* between handlers
Restart ==
    /\ restarts < MaxRestarts
    /\ tasks = <<>>
    /\ Started

\* with handlers in flight
Kill ==
    /\ restarts < MaxRestarts
    /\ tasks # <<>>
    /\ Started

\* ---------------------------------------------------- specifications
\* on_start with resume_views and create_burg_button, every call answering
StartupOk ==
    \/ \E i \in 1..Len(tasks) : StartGuild(i)
    \/ \E i \in 1..Len(tasks) : FetchFound(i)
    \/ \E i \in 1..Len(tasks) : FetchNotFound(i)
    \/ \E i \in 1..Len(tasks) : SendOk(i)
    \/ \E i \in 1..Len(tasks) : Sent(i)

StartupFailed ==
    \/ \E i \in 1..Len(tasks) : FetchFailed(i)
    \/ \E i \in 1..Len(tasks) : SendFailed(i)

\* a press of a button
ActivationOk ==
    \/ \E m \in DOMAIN messages, key \in CountKeys : Dispatch(m, key)
    \/ \E i \in 1..Len(tasks) : Callback(i)
    \/ \E i \in 1..Len(tasks) : DeleteOk(i)
    \/ \E i \in 1..Len(tasks) : DeleteFailed(i)
    \/ \E i \in 1..Len(tasks) : PostOk(i)

ActivationFailed == \E i \in 1..Len(tasks) : PostFailed(i)

\* /burg-channel create
Creation ==
    \/ \E g \in Guilds, name \in CreateNames : burg_channel_create(g, name)
    \/ \E i \in 1..Len(tasks) : Rejected(i)
    \/ \E i \in 1..Len(tasks) : create_burg_channel(i)
    \/ \E i \in 1..Len(tasks) : CreateWebhookFailed(i)
    \/ \E i \in 1..Len(tasks) : CreateChannelFailed(i)

\* /burg-channel delete
Deletion ==
    \/ \E c \in DOMAIN channels : burg_channel_delete(c)
    \/ \E i \in 1..Len(tasks) : WebhookDeleted(i)
    \/ \E i \in 1..Len(tasks) : delete_burg_channel(i)
    \/ \E i \in 1..Len(tasks) : DeleteCommandFailed(i)

Environment == \E m \in DOMAIN messages : ExternalDelete(m)

\* Channels are made and buttons are pressed while the startup pass runs;
\* calls may fail.
NextRun ==
    \/ StartupOk \/ StartupFailed \/ ActivationOk \/ ActivationFailed
    \/ Creation

SpecRun == InitRun /\ [][NextRun]_vars

\* Startup passes with calls that fail, control messages deleted by hand at
\* any time, and restarts between passes.
NextStartup == Environment \/ StartupOk \/ StartupFailed \/ Restart

SpecStartup == Init /\ [][NextStartup]_vars

\* Buttons are pressed and control messages are deleted by hand while the
\* startup pass runs; no call fails but for a message that is gone.
NextPress == StartupOk \/ ActivationOk \/ Environment

SpecPress == InitRun /\ [][NextPress]_vars

\* Control messages are deleted while the bot is offline; then the startup
\* pass runs, the process is restarted and the pass runs again, every call
\* answering.
OfflineDelete(m) ==
    /\ restarts = 0
    /\ tasks = <<StartTask>>
    /\ inited = {}
    /\ ExternalDelete(m)

NextResume ==
    \/ \E m \in DOMAIN messages : OfflineDelete(m)
    \/ StartupOk
    \/ Restart

SpecResume == Init /\ [][NextResume]_vars

\* Buttons are pressed and the process is stopped at an await of a callback;
\* after the restart the startup pass runs alone, every call answering.
PressBeforeKill(m, key) ==
    /\ restarts = 0
    /\ Dispatch(m, key)

KillMidActivation ==
    /\ \E i \in 1..Len(tasks) :
          tasks[i].kind = "callback" /\ tasks[i].pc \in {"delete", "post", "send", "sent"}
    /\ Kill

NextKill ==
    \/ StartupOk
    \/ \E m \in DOMAIN messages, key \in CountKeys : PressBeforeKill(m, key)
    \/ \E i \in 1..Len(tasks) : Callback(i)
    \/ \E i \in 1..Len(tasks) : DeleteOk(i)
    \/ \E i \in 1..Len(tasks) : DeleteFailed(i)
    \/ \E i \in 1..Len(tasks) : PostOk(i)
    \/ KillMidActivation

SpecKill == Init /\ [][NextKill]_vars

\* The channel commands, create and delete, beside the startup pass.
NextAdmin == StartupOk \/ StartupFailed \/ Creation \/ Deletion

SpecAdmin == Init /\ [][NextAdmin]_vars

\* ------------------------------------------------------------ claims
BoundChannels ==
    {cfg[p[1]][p[2]].val.channel_id :
        p \in {q \in Guilds \X (1..(MaxInitBindings + MaxChannels)) : q[2] <= Len(cfg[q[1]])}}

\* The binding of channel c in guild g.
Binding(g, c) == DictGet(cfg[g], Str(c))

\* Deliveries executed by activations of message m, and the control messages
\* those activations made.
PostsOf(m) == {p \in DOMAIN posts : p[2] = m}

RearmsOf(m) == {x \in DOMAIN messages : messages[x].by = m}

\* The step is taken by the i-th task: it ends or it moves on.
Acts(i) ==
    /\ restarts' = restarts
    /\ \/ tasks' = RemoveAt(tasks, i)
       \/ Len(tasks') = Len(tasks) /\ tasks'[i] # tasks[i]

Ends(i) == restarts' = restarts /\ tasks' = RemoveAt(tasks, i)

OtherKey(k) == CHOOSE o \in CountKeys : o # k

\* C1: every bound channel holds at most one undeleted control message.
C1_AtMostOneControl ==
    \A c \in BoundChannels : Cardinality(Controls(c)) <= 1

\* C2: of the activations of one control message at most one executes a
\* delivery (and that once) and at most one makes a replacement control.
C2_OneActivationSucceeds ==
    \A m \in DOMAIN messages :
        /\ Cardinality(PostsOf(m)) <= 1
        /\ \A p \in PostsOf(m) : posts[p] <= 1
        /\ Cardinality(RearmsOf(m)) <= 1

\* C3: an activation whose calls all answer delivers once through the
\* channel's webhook, adds one to the pressed key in the guild's and in the
\* global scope and changes no other counter, and stores a new control whose
\* id differs from the pressed message's as the binding's button_id.
C3_ActivationStep(i) ==
    LET t == tasks[i]
        p == <<Binding(t.g, t.c).webhook_id, t.m>>
    IN  /\ (t.pc = "post" /\ posts' # posts) =>
              /\ posts' = IF p \in DOMAIN posts
                          THEN [posts EXCEPT ![p] = @ + 1]
                          ELSE (p :> 1) @@ posts
              /\ num_burg(gstats', t.key) = num_burg(gstats, t.key) + 1
              /\ num_burg(stats'[t.g], t.key) = num_burg(stats[t.g], t.key) + 1
              /\ num_burg(gstats', OtherKey(t.key)) = num_burg(gstats, OtherKey(t.key))
              /\ num_burg(stats'[t.g], OtherKey(t.key))
                     = num_burg(stats[t.g], OtherKey(t.key))
              /\ \A g \in Guilds \ {t.g} : stats'[g] = stats[g]
              /\ ~Ends(i)
        /\ t.pc = "sent" =>
              /\ is_channel_burg(t.g, t.c)
              /\ cfg'[t.g] = button_set(cfg[t.g], t.c, t.new)
              /\ t.new # t.m
              /\ messages[t.new].channel = t.c

C3_Activation ==
    [][\A i \in 1..Len(tasks) :
          (tasks[i].kind = "callback" /\ Acts(i)) => C3_ActivationStep(i)]_vars

\* C4: when execute_webhook raises, the old control is deleted, no control is
\* made, no counter of either scope changes and the callback ends with the
\* exception; no control is ever made by an activation that did not deliver.
C4_DeliveryFails ==
    /\ [][\A i \in 1..Len(tasks) :
            (tasks[i].kind = "callback" /\ tasks[i].pc = "post" /\ Acts(i)
                /\ posts' = posts)
            => /\ Ends(i)
               /\ messages[tasks[i].m].state = "removed"
               /\ messages' = messages
               /\ RearmsOf(tasks[i].m) = {}
               /\ stats' = stats /\ gstats' = gstats
               /\ cfg' = cfg]_vars
    /\ [](\A x \in DOMAIN messages :
            messages[x].by # None => PostsOf(messages[x].by) # {})

\* The control messages of channel c after the step.
ControlsNext(c) ==
    {m \in DOMAIN messages' : messages'[m].state = "live" /\ messages'[m].channel = c}

\* C5: when the startup pass leaves a guild, every binding of the guild has
\* its control: button_id names an undeleted message of the bound channel,
\* also when several bindings had lost theirs.
C5_PassRepairsAll ==
    [][\A i \in 1..Len(tasks) :
          (/\ tasks[i].kind = "start"
           /\ tasks[i].pc \in {"fetch", "sent"}
           /\ Acts(i)
           /\ (Ends(i) \/ tasks'[i].g # tasks[i].g))
          => \A k \in 1..Len(cfg'[tasks[i].g]) :
                LET b == cfg'[tasks[i].g][k].val
                IN  b.button_id \in ControlsNext(b.channel_id)]_vars

\* Bindings the startup pass has still to visit: in this guild after the
\* current one, or in a later guild.
Remaining(t) ==
    \/ Len(t.todo) > 1
    \/ \E g \in Guilds : g > t.g /\ cfg[g] # <<>>

\* C6: the startup pass does not end at a binding's fetch_message or send
\* while bindings of this or of a later guild are still to be visited.
C6_FailureIsIsolated ==
    [][\A i \in 1..Len(tasks) :
          (/\ tasks[i].kind = "start"
           /\ tasks[i].pc \in {"fetch", "send"}
           /\ Ends(i))
          => ~Remaining(tasks[i])]_vars

\* C7: a startup pass that follows a completed one makes no control message
\* and changes no binding.
C7_SecondPassChangesNothing ==
    [][restarts >= 1 /\ restarts' = restarts
          => messages' = messages /\ cfg' = cfg]_vars

\* C8: after a stop in the middle of an activation, a restart and one
\* completed startup pass, every binding's button_id names an undeleted
\* message that is the only control of its channel.
C8_RestartAfterKill ==
    (restarts = 1 /\ tasks = <<>>)
        => \A g \in Guilds : \A k \in 1..Len(cfg[g]) :
              Controls(cfg[g][k].val.channel_id) = {cfg[g][k].val.button_id}

\* C9: the create command adds one entry, keyed by the new channel's id, after
\* the entries there are; its create_burg_button changes that entry's
\* button_id only; the delete command for the channel removes that entry only;
\* and no entry is left for a channel that a delete command removed.
C9_CreateStep(i) ==
    LET g == tasks[i].g
        n == Len(cfg[g])
    IN  /\ tasks[i].pc = "mkchan" /\ cfg' # cfg =>
              /\ Len(cfg'[g]) = n + 1
              /\ SubSeq(cfg'[g], 1, n) = cfg[g]
              /\ cfg'[g][n + 1].key = Str(tasks'[i].c)
              /\ tasks'[i].c \in DOMAIN channels' \ DOMAIN channels
              /\ \A h \in Guilds \ {g} : cfg'[h] = cfg[h]
        /\ tasks[i].pc = "sent" =>
              /\ Len(cfg'[g]) = n
              /\ \A k \in 1..n :
                    /\ cfg'[g][k].key = cfg[g][k].key
                    /\ IF cfg[g][k].key = Str(tasks[i].c)
                       THEN [cfg'[g][k].val EXCEPT !.button_id = None]
                                = [cfg[g][k].val EXCEPT !.button_id = None]
                       ELSE cfg'[g][k] = cfg[g][k]
              /\ \A h \in Guilds \ {g} : cfg'[h] = cfg[h]

C9_DeleteStep(i) ==
    LET g == tasks[i].g
    IN  tasks[i].pc = "rmchan" /\ channels' # channels =>
              /\ tasks[i].c \notin DOMAIN channels'
              /\ KeyIn(cfg[g], Str(tasks[i].c))
              /\ Len(cfg'[g]) = Len(cfg[g]) - 1
              /\ cfg'[g] = SelectSeq(cfg[g], LAMBDA e : e.key # Str(tasks[i].c))
              /\ \A h \in Guilds \ {g} : cfg'[h] = cfg[h]

C9_CreateThenDelete ==
    /\ [][\A i \in 1..Len(tasks) :
            /\ (tasks[i].kind = "create" /\ Acts(i)) => C9_CreateStep(i)
            /\ (tasks[i].kind = "delete" /\ Acts(i)) => C9_DeleteStep(i)]_vars
    /\ [](BoundChannels \subseteq DOMAIN channels)

\* A channel made by the create command, with its control message, has been
\* deleted by the delete command, and no command is in flight.
C9_Witness ==
    /\ newChannels = 1
    /\ newIds = 1
    /\ tasks = <<>>
    /\ LET m == nextId - 1
       IN  /\ m \in DOMAIN messages
           /\ messages[m].channel = m - 2
           /\ messages[m].state = "gone"
           /\ (m - 2) \notin DOMAIN channels
           /\ \A g \in Guilds : ~KeyIn(cfg[g], Str(m - 2))

\* The channels of guild g with that name that are bound.
BoundByName(g, name) ==
    {c \in BoundChannels \cap DOMAIN channels :
        channels[c].guild = g /\ channels[c].name = name}

\* C10: the create command for the name of a bound channel of the guild
\* answers with the error and changes neither the platform nor the store.
C10_CreateBoundFails ==
    /\ [][(/\ Len(tasks') = Len(tasks) + 1
           /\ tasks'[Len(tasks')].kind = "create"
           /\ BoundByName(tasks'[Len(tasks')].g, tasks'[Len(tasks')].name) # {})
          => /\ tasks'[Len(tasks')].pc = "reject"
             /\ UNCHANGED <<platform, store>>]_vars
    /\ [][\A i \in 1..Len(tasks) :
            (tasks[i].kind = "create" /\ tasks[i].pc = "reject" /\ Acts(i))
            => Ends(i) /\ UNCHANGED <<platform, store>>]_vars

\* A create command for a bound channel's name is answering with the error.
C10_Witness ==
    \E i \in 1..Len(tasks) :
        /\ tasks[i].kind = "create"
        /\ tasks[i].pc = "reject"
        /\ BoundByName(tasks[i].g, tasks[i].name) # {}

\* One stat scope over a step: count_burg was called once for one key, or
\* nothing of the scope changed.
ScopeStep(s, t, now) ==
    \/ t = s
    \/ \E k \in CountKeys :
          /\ num_burg(t, k) = num_burg(s, k) + 1
          /\ num_burg(t, OtherKey(k)) = num_burg(s, OtherKey(k))
          /\ "burger_epoch" \in DOMAIN t
          /\ t["burger_epoch"] = IF "burger_epoch" \in DOMAIN s
                                 THEN s["burger_epoch"] ELSE now

\* C11: in every stat scope each count_burg call adds one to its key and
\* nothing to the other, so a fresh scope's counters add up to the number of
\* calls; burger_epoch is written by the first call and never again; and no
\* counter ever decreases.
C11_Counters ==
    /\ [][/\ ScopeStep(gstats, gstats', clock')
          /\ \A g \in Guilds : ScopeStep(stats[g], stats'[g], clock')
          /\ \A k \in CountKeys :
                /\ num_burg(gstats', k) >= num_burg(gstats, k)
                /\ \A g \in Guilds : num_burg(stats'[g], k) >= num_burg(stats[g], k)
          /\ (clock' # clock) => (clock' = clock + 1 /\ gstats' # gstats)]_vars
    /\ [](/\ num_burg(gstats, "burgers_posted")
               + num_burg(gstats, "angry_burgers_posted") = clock
          /\ \A g \in Guilds :
                "burger_epoch" \notin DOMAIN stats[g]
                    => \A k \in CountKeys : num_burg(stats[g], k) = 0)

\* The global scope has counted both keys, the first call long ago.
C11_Witness ==
    /\ "burger_epoch" \in DOMAIN gstats
    /\ gstats["burger_epoch"] = 1
    /\ gstats["burgers_posted"] >= 1
    /\ gstats["angry_burgers_posted"] >= 1
    /\ clock >= 3

\* C12: the delete command for a channel without a binding answers with the
\* error and changes neither the platform nor the store.
C12_DeleteUnboundFails ==
    /\ [][(/\ Len(tasks') = Len(tasks) + 1
           /\ tasks'[Len(tasks')].kind = "delete"
           /\ ~is_channel_burg(tasks'[Len(tasks')].g, tasks'[Len(tasks')].c))
          => /\ tasks'[Len(tasks')].pc = "reject"
             /\ UNCHANGED <<platform, store>>]_vars
    /\ [][\A i \in 1..Len(tasks) :
            (tasks[i].kind = "delete" /\ tasks[i].pc = "reject" /\ Acts(i))
            => Ends(i) /\ UNCHANGED <<platform, store>>]_vars

\* A delete command for an existing channel that has no binding is answering
\* with the error.
C12_Witness ==
    \E i \in 1..Len(tasks) :
        /\ tasks[i].kind = "delete"
        /\ tasks[i].pc = "reject"
        /\ tasks[i].c \in DOMAIN channels
        /\ ~is_channel_burg(tasks[i].g, tasks[i].c)

\* C13: a callback waits for its delivery only after remove_burg_button is
\* through (the pressed message is deleted, or it is not the tracked one);
\* counters change only in the step in which execute_webhook answered; and a
\* callback is at create_burg_button only after its delivery and both counts.
C13_Order ==
    /\ [](\A i \in 1..Len(tasks) :
            LET t == tasks[i]
            IN  /\ (t.kind = "callback" /\ t.pc = "post" /\ is_channel_burg(t.g, t.c))
                    => \/ t.m \notin Live
                       \/ Binding(t.g, t.c).button_id # t.m
                /\ (t.kind = "callback" /\ t.pc \in {"send", "sent"})
                    => /\ PostsOf(t.m) # {}
                       /\ num_burg(gstats, t.key) >= 1
                       /\ num_burg(stats[t.g], t.key) >= 1)
    /\ [][(gstats' # gstats \/ stats' # stats)
            => /\ posts' # posts
               /\ \E i \in 1..Len(tasks) :
                     /\ tasks[i].kind = "callback" /\ tasks[i].pc = "post"
                     /\ Acts(i)
                     /\ num_burg(gstats', tasks[i].key) = num_burg(gstats, tasks[i].key) + 1
                     /\ num_burg(stats'[tasks[i].g], tasks[i].key)
                            = num_burg(stats[tasks[i].g], tasks[i].key) + 1]_vars
    /\ [](\A x \in DOMAIN messages :
            messages[x].by # None => PostsOf(messages[x].by) # {})

\* A callback has deleted its message, delivered and counted, and waits for
\* the send of the new control.
C13_Witness ==
    \E i \in 1..Len(tasks) :
        /\ tasks[i].kind = "callback"
        /\ tasks[i].pc = "send"
        /\ messages[tasks[i].m].state = "removed"
        /\ PostsOf(tasks[i].m) # {}

\* C14: remove_burg_button asks for the deletion of the pressed message only
\* when the binding's button_id is that message's id; when it is another id
\* nothing is deleted, nothing is raised and the callback goes on to its
\* delivery; and a message is removed only for a callback that asked for it.
C14_DeleteOnlyTracked ==
    /\ [][\A i \in 1..Len(tasks) :
            (tasks[i].kind = "callback" /\ tasks[i].pc = "queued" /\ Acts(i)
                /\ is_channel_burg(tasks[i].g, tasks[i].c))
            => IF Binding(tasks[i].g, tasks[i].c).button_id = tasks[i].m
               THEN /\ ~Ends(i)
                    /\ tasks'[i].pc = "delete"
                    /\ messages' = messages
               ELSE /\ ~Ends(i)
                    /\ tasks'[i].pc = "post"
                    /\ messages' = messages]_vars
    /\ [][\A m \in DOMAIN messages :
            (messages[m].state = "live" /\ messages'[m].state = "removed")
            => \E i \in 1..Len(tasks) :
                  /\ tasks[i].kind = "callback" /\ tasks[i].pc = "delete"
                  /\ tasks[i].m = m
                  /\ Acts(i)]_vars

\* A callback of a control that is not the tracked one waits for its
\* delivery, the control undeleted.
C14_Witness ==
    \E i \in 1..Len(tasks) :
        /\ tasks[i].kind = "callback"
        /\ tasks[i].pc = "post"
        /\ tasks[i].m \in Live
        /\ is_channel_burg(tasks[i].g, tasks[i].c)
        /\ Binding(tasks[i].g, tasks[i].c).button_id # tasks[i].m

\* C15: a callback whose tracked message is already deleted when its
\* message.delete() is answered is not ended there: it goes on to
\* post_to_burghook.
C15_NotFoundNotFatal ==
    [][\A i \in 1..Len(tasks) :
          (/\ tasks[i].kind = "callback"
           /\ tasks[i].pc = "delete"
           /\ tasks[i].m \notin Live
           /\ Acts(i))
          => /\ ~Ends(i)
             /\ tasks'[i].pc = "post"]_vars

\* C16: when fetch_message finds a binding's message, resume_views starts a
\* view on it and goes on to the next binding: no message is sent and the
\* configuration is unchanged.
C16_FoundFrame ==
    [][\A i \in 1..Len(tasks) :
          (/\ tasks[i].kind = "start"
           /\ tasks[i].pc = "fetch"
           /\ Head(tasks[i].todo).button_id \in Controls(Head(tasks[i].todo).channel_id)
           /\ Acts(i))
          => /\ Head(tasks[i].todo).button_id \in views'
             /\ UNCHANGED <<platform, store>>
             /\ Ends(i) \/ tasks'[i].pc \in {"fetch", "guild"}
             /\ (~Ends(i) /\ tasks'[i].pc = "fetch" /\ tasks'[i].g = tasks[i].g)
                    => tasks'[i].todo = Tail(tasks[i].todo)]_vars

\* After a restart the pass has found a binding's message and started its
\* view, and no message was ever sent.
C16_Witness ==
    /\ restarts = 1
    /\ views # {}
    /\ newIds = 0
    /\ \E g \in Guilds : Len(cfg[g]) = 2

\* C17: the startup pass never awaits fetch_message for a binding whose
\* button_id is None; at such a binding it sends nothing, is not ended by an
\* error and goes on to the bindings that remain.
C17_SkipsNoneButton ==
    /\ [](\A i \in 1..Len(tasks) :
            (tasks[i].kind = "start" /\ tasks[i].pc = "fetch")
                => Head(tasks[i].todo).button_id # None)
    /\ [][\A i \in 1..Len(tasks) :
            (/\ tasks[i].kind = "start"
             /\ tasks[i].pc = "fetch"
             /\ Head(tasks[i].todo).button_id = None
             /\ Acts(i))
            => /\ messages' = messages
               /\ tasks'[i].pc # "send"
               /\ Ends(i) => ~Remaining(tasks[i])]_vars

\* The button_id of the entry of dict d with key k.
ButtonOf(d, k) == DictGet(d, k).button_id

\* C18: a binding's button_id changes only in the step in which
\* create_burg_button's send has answered, to the id of the one message that
\* send made in the binding's channel, which is not None and is no message
\* known before the send.
C18_OnlyCreateSetsButton ==
    /\ [][\A g \in Guilds : \A k \in 1..Len(cfg[g]) :
            LET key == cfg[g][k].key
            IN  (KeyIn(cfg'[g], key) /\ ButtonOf(cfg'[g], key) # ButtonOf(cfg[g], key))
                => \E i \in 1..Len(tasks) :
                      /\ tasks[i].pc = "sent"
                      /\ Acts(i)
                      /\ tasks[i].g = g
                      /\ key = Str(tasks[i].c)
                      /\ ButtonOf(cfg'[g], key) = tasks[i].new
                      /\ tasks[i].new # None
                      /\ tasks[i].new \in DOMAIN messages
                      /\ messages[tasks[i].new].channel = tasks[i].c
                      /\ messages' = messages]_vars
    /\ [][\A i \in 1..Len(tasks) :
            (tasks[i].pc = "send" /\ Acts(i) /\ ~Ends(i))
            => /\ tasks'[i].pc = "sent"
               /\ tasks'[i].new \notin DOMAIN messages
               /\ DOMAIN messages' = DOMAIN messages \cup {tasks'[i].new}]_vars

\* A callback's create_burg_button has replaced the button_id that the
\* startup pass found.
C18_Witness ==
    \E g \in Guilds : \E k \in 1..Len(cfg[g]) :
        LET b == cfg[g][k].val
        IN  /\ b.button_id # None
            /\ b.button_id \in DOMAIN messages
            /\ messages[b.button_id].by # None

RECURSIVE SumOver(_, _)
\* The sum of a key's counts over the guild scopes of the guilds in S.
SumOver(S, k) ==
    IF S = {} THEN 0
    ELSE LET g == CHOOSE x \in S : TRUE
         IN  num_burg(stats[g], k) + SumOver(S \ {g}, k)

\* C19: for each counter key the global scope's count is the sum of the
\* guild scopes' counts, in every state between awaits.
C19_GlobalIsSum ==
    \A k \in CountKeys : num_burg(gstats, k) = SumOver(Guilds, k)

\* Presses were counted in both guilds.
C19_Witness ==
    /\ \E k \in CountKeys : num_burg(stats[1], k) >= 1
    /\ \E k \in CountKeys : num_burg(stats[2], k) >= 1

\* C20: an entry leaves the channels subtree only in the step in which
\* delete_channel has answered for its channel, its webhook deleted before;
\* a delete command that ends at a failed delete_webhook or delete_channel
\* leaves the configuration as it is.
C20_EntryRemovedLast ==
    /\ [][\A g \in Guilds : \A k \in 1..Len(cfg[g]) :
            ~KeyIn(cfg'[g], cfg[g][k].key)
            => \E i \in 1..Len(tasks) :
                  /\ tasks[i].kind = "delete" /\ tasks[i].pc = "rmchan"
                  /\ Ends(i)
                  /\ tasks[i].g = g
                  /\ cfg[g][k].key = Str(tasks[i].c)
                  /\ cfg[g][k].val.webhook_id \notin DOMAIN webhooks
                  /\ tasks[i].c \in DOMAIN channels
                  /\ tasks[i].c \notin DOMAIN channels']_vars
    /\ [][\A i \in 1..Len(tasks) :
            (/\ tasks[i].kind = "delete"
             /\ tasks[i].pc \in {"rmhook", "rmchan"}
             /\ Ends(i)
             /\ channels' = channels)
            => /\ cfg' = cfg
               /\ is_channel_burg(tasks[i].g, tasks[i].c)
                      => KeyIn(cfg'[tasks[i].g], Str(tasks[i].c))]_vars

\* A delete command has ended at a failed delete_channel: the webhook is
\* gone, channel and entry are there.
C20_Witness ==
    /\ tasks = <<>>
    /\ \E g \in Guilds : \E k \in 1..Len(cfg[g]) :
          /\ cfg[g][k].val.webhook_id \notin DOMAIN webhooks
          /\ cfg[g][k].val.channel_id \in DOMAIN channels

====
